---- MODULE Spec2Model ----
(***************************************************************************)
(* Model of scripts/TG_sender.py: the callback on_image_saved, which       *)
(* routes a saved image to a Telegram chat, prepares the photo artifact    *)
(* (resize_image, compress_image_for_telegram) and starts one or two       *)
(* send_to_telegram threads, and the threads themselves, stepping          *)
(* concurrently over a shared file system.                                 *)
(*                                                                         *)
(* Python strings are sequences of one-character strings, so that the      *)
(* string functions of the source (split, strip, lower, re.search,         *)
(* basename, splitext, the "in" test) are computed and not assumed.        *)
(***************************************************************************)
EXTENDS Integers, Sequences, FiniteSets, TLC

\* ------------------------------------------------------------- strings

Upper == <<"A","B","C","D","E","F","G","H","I","J","K","L","M","N","O","P","Q","R","S","T","U","V","W","X","Y","Z">>

Lower == <<"a","b","c","d","e","f","g","h","i","j","k","l","m","n","o","p","q","r","s","t","u","v","w","x","y","z">>

\* str.lower() on one character
LowerChar(c) ==
    IF \E i \in 1..Len(Upper) : Upper[i] = c
    THEN Lower[CHOOSE i \in 1..Len(Upper) : Upper[i] = c]
    ELSE c

\* str.lower()
ToLower(s) == [i \in 1..Len(s) |-> LowerChar(s[i])]

\* what \s matches and str.strip() removes
IsSpace(c) == c \in {" ", "\t", "\n", "\r"}

\* str.find(c) + 1: the first index of character c in s, 0 when absent
FirstIndex(s, c) ==
    IF \E i \in 1..Len(s) : s[i] = c
    THEN CHOOSE i \in 1..Len(s) : s[i] = c /\ \A j \in 1..(i-1) : s[j] # c
    ELSE 0

\* str.rfind(c) + 1: the last index of character c in s, 0 when absent
LastIndex(s, c) ==
    IF \E i \in 1..Len(s) : s[i] = c
    THEN CHOOSE i \in 1..Len(s) : s[i] = c /\ \A j \in (i+1)..Len(s) : s[j] # c
    ELSE 0

\* the Python test "sub in s"
Contains(s, sub) ==
    \E i \in 0..(Len(s) - Len(sub)) : SubSeq(s, i+1, i+Len(sub)) = sub

\* str.replace(a, b) for single characters
ReplaceChar(s, a, b) == [i \in 1..Len(s) |-> IF s[i] = a THEN b ELSE s[i]]

\* str.strip()
Strip(s) ==
    IF \A i \in 1..Len(s) : IsSpace(s[i])
    THEN <<>>
    ELSE LET first == CHOOSE i \in 1..Len(s) :
                          ~IsSpace(s[i]) /\ \A j \in 1..(i-1) : IsSpace(s[j])
             last  == CHOOSE i \in 1..Len(s) :
                          ~IsSpace(s[i]) /\ \A j \in (i+1)..Len(s) : IsSpace(s[j])
         IN  SubSeq(s, first, last)

RECURSIVE SplitAll(_, _)
\* str.split(c): every piece between occurrences of c, empty pieces included
SplitAll(s, c) ==
    LET i == FirstIndex(s, c)
    IN  IF i = 0
        THEN <<s>>
        ELSE <<SubSeq(s, 1, i-1)>> \o SplitAll(SubSeq(s, i+1, Len(s)), c)

\* str.split(c, 1) of a string that contains c
SplitOnce(s, c) ==
    LET i == FirstIndex(s, c)
    IN  <<SubSeq(s, 1, i-1), SubSeq(s, i+1, Len(s))>>

\* os.path.basename (posixpath): what follows the last "/"
Basename(path) == SubSeq(path, LastIndex(path, "/") + 1, Len(path))

\* os.path.splitext(path)[0]: the path without its extension; a dot counts
\* only after the last "/" and after a character of the name that is no dot
SplitextRoot(path) ==
    LET sepIndex == LastIndex(path, "/")
        dotIndex == LastIndex(path, ".")
    IN  IF dotIndex > sepIndex
           /\ \E k \in (sepIndex+1)..(dotIndex-1) : path[k] # "."
        THEN SubSeq(path, 1, dotIndex-1)
        ELSE path

\* Python's None (mapping.get of a missing key, no params.filename)
None == <<"<None>">>

\* Python truthiness of an optional string: None and "" are false
Truthy(x) == x # None /\ x # <<>>

\* ------------------------------------------------------------- routing

Marker == <<"-","l","o","r","a">>

KeyPrefix == <<"l","o","r","a"," ">>

\* where re.search(r"-lora\s+(\S+)", filename, re.IGNORECASE) can match:
\* the marker at i (any case), at least one space, then a non-space
MatchesAt(filename, i) ==
    /\ i + Len(Marker) <= Len(filename)
    /\ ToLower(SubSeq(filename, i, i + Len(Marker) - 1)) = Marker
    /\ IsSpace(filename[i + Len(Marker)])
    /\ \E k \in (i + Len(Marker) + 1)..Len(filename) :
          /\ ~IsSpace(filename[k])
          /\ \A j \in (i + Len(Marker))..(k-1) : IsSpace(filename[j])

\* match.group(1): the longest run of non-space characters after the spaces
\* that follow the leftmost marker
MatchGroup(filename) ==
    LET i == CHOOSE p \in 1..Len(filename) :
                 MatchesAt(filename, p) /\ \A q \in 1..(p-1) : ~MatchesAt(filename, q)
        b == CHOOSE k \in (i + Len(Marker) + 1)..Len(filename) :
                 /\ ~IsSpace(filename[k])
                 /\ \A j \in (i + Len(Marker))..(k-1) : IsSpace(filename[j])
        e == CHOOSE k \in b..Len(filename) :
                 /\ \A j \in b..k : ~IsSpace(filename[j])
                 /\ (k = Len(filename) \/ IsSpace(filename[k+1]))
    IN  SubSeq(filename, b, e)

\* extract_key: "lora <token>" for the first "-lora <token>", else ""
extract_key(filename) ==
    IF \E p \in 1..Len(filename) : MatchesAt(filename, p)
    THEN KeyPrefix \o Strip(MatchGroup(filename))
    ELSE <<>>

RECURSIVE DictOf(_)
\* the dict comprehension over the entries that contain ":": a sequence of
\* <<key, value>> pairs in insertion order, key stripped and lowercased,
\* value stripped
DictOf(entries) ==
    IF entries = <<>>
    THEN <<>>
    ELSE LET entry == Head(entries)
             rest  == DictOf(Tail(entries))
         IN  IF Contains(entry, <<":">>)
             THEN LET kv == SplitOnce(entry, ":")
                  IN  <<<<ToLower(Strip(kv[1])), Strip(kv[2])>>>> \o rest
             ELSE rest

\* mapping = {...}: built from telegram_channel_mapping split on ";"
ParseMapping(mapping_str) == DictOf(SplitAll(mapping_str, ";"))

\* mapping.get(key): a later pair with the same key replaces an earlier one
DictGet(mapping, key) ==
    IF \E i \in 1..Len(mapping) : mapping[i][1] = key
    THEN mapping[CHOOSE i \in 1..Len(mapping) :
                     mapping[i][1] = key
                     /\ \A j \in (i+1)..Len(mapping) : mapping[j][1] # key][2]
    ELSE None

\* the four identical routing blocks of on_image_saved: the chat id for the
\* file name, None or "" when there is nothing to send to
RouteByFilename(filename, mapping_str) ==
    DictGet(ParseMapping(mapping_str), ToLower(extract_key(filename)))

GridSegment == <<"o","u","t","p","u","t","s","/","g","r","i","d","s","/">>

\* IsIgnored without the test for the grid segment
IsIgnoredNoGrid(image_path) == ~Truthy(image_path)

\* the early return of on_image_saved: no path, or a path under outputs/grids/
IsIgnored(image_path) ==
    \/ ~Truthy(image_path)
    \/ Contains(ReplaceChar(image_path, "\\", "/"), GridSegment)

\* --------------------------------------------------------- file system

\* A file is [path, big, readable, quality]: big says its size is above the
\* 10 MB threshold (10 * 1024 * 1024 at all three places that test it),
\* readable that Image.open accepts it, quality is the JPEG quality this
\* component encoded it with (0 for the host's own file).
Exists(fs, path) == \E f \in fs : f.path = path

FileAt(fs, path) == CHOOSE f \in fs : f.path = path

\* img.save(path, ...): creates the file or replaces the one at that path
WriteFile(fs, file) == {f \in fs : f.path # file.path} \cup {file}

\* os.remove(path)
RemoveFile(fs, path) == {f \in fs : f.path # path}

ResizedMark == <<"_","r","e","s","i","z","e","d">>

CompressedMark == <<"_","c","o","m","p","r","e","s","s","e","d">>

ResizedSuffix == <<"_","r","e","s","i","z","e","d",".","j","p","g">>

CompressedSuffix == <<"_","c","o","m","p","r","e","s","s","e","d",".","j","p","g">>

\* the test of delete_temp_file: the base name carries a temporary marker
LooksTemporary(file_path) ==
    \/ Contains(Basename(file_path), ResizedMark)
    \/ Contains(Basename(file_path), CompressedMark)

\* delete_temp_file: removes an existing file whose name looks temporary
delete_temp_file(fs, file_path) ==
    IF Exists(fs, file_path) /\ LooksTemporary(file_path)
    THEN RemoveFile(fs, file_path)
    ELSE fs

\* ----------------------------------------------------- image transformer

ResizeQuality == 85

\* lines 42-52: a landscape or square image (width >= height) is over the
\* limit when its width exceeds telegram_landscape_max_width, a portrait one
\* when its larger side exceeds telegram_max_size
NeedsResize(width, height, o) ==
    IF width >= height
    THEN width > o.telegram_landscape_max_width
    ELSE (IF width >= height THEN width ELSE height) > o.telegram_max_size

\* resize_image: [files, path]. An image within the limits, or one that
\* Image.open rejects (the except branch), gives back image_path; an oversize
\* one is saved as <root>_resized.jpg, whose size (resizedBig) is an input.
resize_image(fs, image_path, oversize, resizedBig) ==
    IF Exists(fs, image_path) /\ FileAt(fs, image_path).readable /\ oversize
    THEN LET temp_path == SplitextRoot(image_path) \o ResizedSuffix
         IN  [files |-> WriteFile(fs, [path |-> temp_path, big |-> resizedBig,
                                       readable |-> TRUE, quality |-> ResizeQuality]),
              path  |-> temp_path]
    ELSE [files |-> fs, path |-> image_path]

StartQuality == 85

MinQuality == 30

QualityStep == 10

RECURSIVE CompressLoopNoReturn(_, _, _, _)
\* CompressLoop without the return inside the loop: it encodes at every
\* quality down to the last one
CompressLoopNoReturn(quality, saved, saves, fitBelow) ==
    IF quality >= MinQuality
    THEN CompressLoopNoReturn(quality - QualityStep, quality, saves + 1, fitBelow)
    ELSE [quality |-> saved, saves |-> saves, fits |-> saved <= fitBelow]

RECURSIVE CompressLoop(_, _, _, _)
\* the while loop of compress_image_for_telegram. fitBelow is the input: the
\* encoding at quality q is within target_size exactly when q <= fitBelow.
\* Gives the quality of the last img.save, the number of saves and whether
\* the loop returned from inside (size within the target).
CompressLoop(quality, saved, saves, fitBelow) ==
    IF quality >= MinQuality
    THEN IF quality <= fitBelow
         THEN [quality |-> quality, saves |-> saves + 1, fits |-> TRUE]
         ELSE CompressLoop(quality - QualityStep, quality, saves + 1, fitBelow)
    ELSE [quality |-> saved, saves |-> saves, fits |-> FALSE]

\* compress_image_for_telegram: [files, path, call]. A source that is missing
\* or unreadable raises in Image.open and gives back image_path; otherwise
\* <root>_compressed.jpg holds the last encoding saved. call records the
\* invocation (source, sizes, result) for the properties of the loop.
compress_image_for_telegram(fs, image_path, fitBelow) ==
    IF Exists(fs, image_path) /\ FileAt(fs, image_path).readable
    THEN LET temp_path == SplitextRoot(image_path) \o CompressedSuffix
             r == CompressLoop(StartQuality, 0, 0, fitBelow)
         IN  [files |-> WriteFile(fs, [path |-> temp_path, big |-> ~r.fits,
                                       readable |-> TRUE, quality |-> r.quality]),
              path  |-> temp_path,
              call  |-> {[source |-> image_path, target |-> temp_path,
                          fitBelow |-> fitBelow, quality |-> r.quality,
                          saves |-> r.saves, fits |-> r.fits]}]
    ELSE [files |-> fs, path |-> image_path, call |-> {}]

\* the size test before a compression (os.path.getsize(path) > 10 MB)
OverThreshold(fs, path) == FileAt(fs, path).big

\* ---------------------------------------------------------- classifier

\* predict_nsfw: [Label, Score] from the outcome of nsfw_pipeline(img),
\* [raises, result] with result a sequence of [label, score] (score in
\* percent). An unreadable image raises in Image.open, an empty selection
\* raises in max(); both give SFW 0, as does a missing pipeline.
predict_nsfw(loaded, readable, outcome) ==
    IF ~loaded \/ ~readable \/ outcome.raises
    THEN [Label |-> "SFW", Score |-> 0]
    ELSE LET result == outcome.result
             nsfw_label == IF \E i \in 1..Len(result) : result[i].label = "NSFW"
                           THEN "NSFW" ELSE "SFW"
             scores == {result[i].score : i \in {j \in 1..Len(result) :
                                                    result[j].label = nsfw_label}}
         IN  IF scores = {}
             THEN [Label |-> "SFW", Score |-> 0]
             ELSE [Label |-> nsfw_label,
                   Score |-> CHOOSE m \in scores : \A x \in scores : x <= m]

\* -------------------------------------------------------------- inputs

PathExample == <<"o","/","0","0","0","1","-","m","o","d","e","l","X","-","l","o","r","a"," ","S","o","m","e","L","o","r","a",".","p","n","g">>

PathSpaced == <<"o","/","1","-","l","o","r","a"," ","S","L"," ","x",".","p","n","g">>

PathMarked == <<"o","/","1","-","l","o","r","a"," ","S","L"," ","x","_","r","e","s","i","z","e","d",".","p","n","g">>

PathGrid == <<"o","u","t","p","u","t","s","/","g","r","i","d","s","/","g","-","l","o","r","a"," ","S","L"," ","x",".","p","n","g">>

PathGridWin == <<"o","u","t","p","u","t","s","\\","g","r","i","d","s","\\","g","-","l","o","r","a"," ","S","L"," ","x",".","p","n","g">>

PathPlain == <<"o","/","p","l","a","i","n",".","p","n","g">>

MapExample == <<"l","o","r","a"," ","s","o","m","e","l","o","r","a",":","1","0","0","1",";","l","o","r","a"," ","s","l",":","7">>

MapUntidy == <<" ","L","o","r","a"," ","S","L"," ",":"," ","7"," ",";","j","u","n","k",";","l","o","r","a"," ","s","l",":","8",";","l","o","r","a"," ","s","l",":"," ","7">>

MapEmptyDest == <<"l","o","r","a"," ","s","l",":",";","l","o","r","a"," ","s","o","m","e","l","o","r","a",":"," ">>

NsfwChannel == <<"9","9","9">>

\* params.filename as the host gives it (None: the attribute is missing)
Paths == {PathExample, PathSpaced, PathMarked, PathGrid, PathGridWin, PathPlain, None}

\* telegram_channel_mapping
Mappings == {MapExample, MapUntidy, MapEmptyDest, <<>>}

\* telegram_bot_token: unset, the placeholder default, a real token
Tokens == {"", "YOUR_BOT_TOKEN", "123:abc"}

\* what nsfw_pipeline(img) does: raises, or returns its list of dicts
ClassifierOutcomes ==
    { [raises |-> TRUE, result |-> <<>>],
      [raises |-> FALSE, result |-> <<>>],
      [raises |-> FALSE, result |-> <<[label |-> "SFW", score |-> 99]>>],
      [raises |-> FALSE, result |-> <<[label |-> "NSFW", score |-> 90],
                                      [label |-> "SFW", score |-> 10]>>],
      [raises |-> FALSE, result |-> <<[label |-> "SFW", score |-> 50],
                                      [label |-> "NSFW", score |-> 50]>>],
      [raises |-> FALSE, result |-> <<[label |-> "SFW", score |-> 51],
                                      [label |-> "NSFW", score |-> 49]>>] }

\* img.size, <<width, height>>: on and just over each limit, and a square
\* image, which the code takes for landscape
ImageSizes == {<<5120, 100>>, <<5121, 100>>, <<100, 2560>>, <<100, 2561>>,
               <<5120, 5120>>}

\* the largest telegram_retry_count tried
MaxRetries == 3

Qualities == {StartQuality - k * QualityStep : k \in 0..5}

\* the sizes of the encodings of one compression: quality q fits the target
\* exactly when q <= fitBelow (0: none fits)
FitLevels == {0, 35, 55, 85}

\* ---------------------------------------------------------------- state

VARIABLES
    params,         \* the host's event: [filename]
    opts,           \* shared.opts.data, the settings read by the code
    nsfw_pipeline,  \* TRUE when the classifier was loaded at import
    image,          \* the saved image: [size, readable, classifier]
    files,          \* the file system: a set of files
    pc,             \* on_image_saved: "idle", then "returned"
    chat_id,        \* the destination on_image_saved resolved, None if none
    thread,         \* the send_to_telegram threads, "photo" and "document"
    created,        \* paths written by resize_image / compress_image_for_telegram
    compressions    \* the calls of compress_image_for_telegram that encoded

vars == <<params, opts, nsfw_pipeline, image, files, pc, chat_id, thread,
          created, compressions>>

Threads == {"photo", "document"}

\* a thread that was never started
NoThread ==
    [pc |-> "none", image_path |-> None, chat_id |-> None, as_document |-> FALSE,
     attempt |-> 0, requests |-> 0, oks |-> 0, uploaded |-> None, deleted |-> {}]

\* threading.Thread(target=send_to_telegram, args=(path, chat, as_document)).start()
StartThread(path, chat, as_document) ==
    [NoThread EXCEPT !.pc = "start", !.image_path = path, !.chat_id = chat,
                     !.as_document = as_document]

\* the settings tried where delivery is examined: every token, both
\* switches, every retry count; routing by file name only
DeliverySettings ==
    [telegram_bot_token       : Tokens,
     telegram_channel_mapping : {MapExample, MapEmptyDest},
     telegram_full_res        : BOOLEAN,
     telegram_disable_sending : BOOLEAN,
     telegram_retry_count     : 1..MaxRetries,
     enable_nsfw_detection    : {FALSE},
     nsfw_channel_id          : {<<>>},
     nsfw_threshold           : {50},
     telegram_max_size            : {2560},
     telegram_landscape_max_width : {5120}]

\* the settings tried where routing is examined: every mapping, detection on
\* and off, the NSFW channel set and unset; sending enabled, one attempt
RoutingSettings ==
    [telegram_bot_token       : {"123:abc"},
     telegram_channel_mapping : Mappings,
     telegram_full_res        : {FALSE},
     telegram_disable_sending : {FALSE},
     telegram_retry_count     : {1},
     enable_nsfw_detection    : BOOLEAN,
     nsfw_channel_id          : {<<>>, NsfwChannel},
     nsfw_threshold           : {50},
     telegram_max_size            : {2560},
     telegram_landscape_max_width : {5120}]

\* the state when the host calls on_image_saved: the image is on disk (when
\* the event names one) and no thread runs
InitWith(paths, settings, images, loaded, sizes) ==
    /\ params \in [filename : paths]
    /\ opts \in settings
    /\ nsfw_pipeline \in loaded
    /\ image \in images
    /\ \E big \in sizes :
          files = IF params.filename = None
                  THEN {}
                  ELSE {[path |-> params.filename, big |-> big,
                         readable |-> image.readable, quality |-> 0]}
    /\ pc = "idle"
    /\ chat_id = None
    /\ thread = [t \in Threads |-> NoThread]
    /\ created = {}
    /\ compressions = {}

\* ------------------------------------------------------- on_image_saved

\* resolve_chat_id with "score > threshold" for "score >= threshold"
resolve_chat_id_above(filename, o, loaded, readable, outcome) ==
    IF o.enable_nsfw_detection /\ loaded
    THEN LET output == predict_nsfw(loaded, readable, outcome)
         IN  IF output.Label = "NSFW" /\ output.Score > o.nsfw_threshold
                /\ Truthy(o.nsfw_channel_id)
             THEN o.nsfw_channel_id
             ELSE RouteByFilename(filename, o.telegram_channel_mapping)
    ELSE RouteByFilename(filename, o.telegram_channel_mapping)

\* lines 203-248: the destination. With detection on and the classifier
\* loaded, an NSFW label at or above the threshold goes to nsfw_channel_id
\* when that is set; every other branch (the except branch too) is the same
\* routing by file name.
resolve_chat_id(filename, o, loaded, readable, outcome) ==
    IF o.enable_nsfw_detection /\ loaded
    THEN LET output == predict_nsfw(loaded, readable, outcome)
         IN  IF output.Label = "NSFW" /\ output.Score >= o.nsfw_threshold
             THEN IF Truthy(o.nsfw_channel_id)
                  THEN o.nsfw_channel_id
                  ELSE RouteByFilename(filename, o.telegram_channel_mapping)
             ELSE RouteByFilename(filename, o.telegram_channel_mapping)
    ELSE RouteByFilename(filename, o.telegram_channel_mapping)

\* lines 252-258: the photo artifact: resize, then compress what is still
\* over 10 MB. [files, path, call, written]
prepare_photo(fs, image_path, oversize, resizedBig, fitBelow) ==
    LET r == resize_image(fs, image_path, oversize, resizedBig)
        c == IF OverThreshold(r.files, r.path)
             THEN compress_image_for_telegram(r.files, r.path, fitBelow)
             ELSE [files |-> r.files, path |-> r.path, call |-> {}]
    IN  [files   |-> c.files,
         path    |-> c.path,
         call    |-> c.call,
         written |-> ({r.path} \cup {c.path}) \ {image_path}]

\* lines 261-265: the photo thread always, the document thread (on the
\* original path) when telegram_full_res is set
start_threads(resized_path, image_path, chat, full_res) ==
    [t \in Threads |->
        IF t = "photo"
        THEN StartThread(resized_path, chat, FALSE)
        ELSE IF full_res THEN StartThread(image_path, chat, TRUE) ELSE NoThread]

\* the whole callback, lines 186-265
on_image_saved ==
    /\ pc = "idle"
    /\ pc' = "returned"
    /\ UNCHANGED <<params, opts, nsfw_pipeline, image>>
    /\ IF IsIgnored(params.filename)
       THEN UNCHANGED <<files, chat_id, thread, created, compressions>>
       ELSE LET image_path == params.filename
                chat == resolve_chat_id(Basename(image_path), opts, nsfw_pipeline,
                                        image.readable, image.classifier)
            IN  /\ chat_id' = chat
                /\ IF ~Truthy(chat)
                   THEN UNCHANGED <<files, thread, created, compressions>>
                   ELSE \E resizedBig \in BOOLEAN, fitBelow \in FitLevels :
                           LET a == prepare_photo(files, image_path,
                                                  NeedsResize(image.size[1],
                                                              image.size[2], opts),
                                                  resizedBig, fitBelow)
                           IN  /\ files' = a.files
                               /\ created' = a.written
                               /\ compressions' = a.call
                               /\ thread' = start_threads(a.path, image_path, chat,
                                                          opts.telegram_full_res)

\* ------------------------------------------------------ send_to_telegram

\* sending_enabled without the test for the placeholder token
sending_enabled_any_token(o) ==
    /\ ~o.telegram_disable_sending
    /\ o.telegram_bot_token # ""

\* lines 123-130: the switch and the token
sending_enabled(o) ==
    /\ ~o.telegram_disable_sending
    /\ o.telegram_bot_token # ""
    /\ o.telegram_bot_token # "YOUR_BOT_TOKEN"

\* lines 123-130: return at once when sending is off
CheckSettings(t) ==
    /\ thread[t].pc = "start"
    /\ thread' = [thread EXCEPT ![t].pc =
                     IF ~sending_enabled(opts) THEN "skipped"
                     ELSE IF thread[t].as_document THEN "attempt" ELSE "size"]
    /\ UNCHANGED <<params, opts, nsfw_pipeline, image, files, pc, chat_id,
                   created, compressions>>

\* lines 132-142, photo mode: a file over 10 MB is compressed and the thread
\* goes on with the compressed path; getsize of a missing file raises and the
\* path stays
CheckSize(t) ==
    /\ thread[t].pc = "size"
    /\ UNCHANGED <<params, opts, nsfw_pipeline, image, pc, chat_id>>
    /\ IF Exists(files, thread[t].image_path)
          /\ OverThreshold(files, thread[t].image_path)
       THEN \E fitBelow \in FitLevels :
               LET c == compress_image_for_telegram(files, thread[t].image_path,
                                                    fitBelow)
               IN  /\ files' = c.files
                   /\ created' = created \cup ({c.path} \ {thread[t].image_path})
                   /\ compressions' = compressions \cup c.call
                   /\ thread' = [thread EXCEPT ![t].pc = "attempt",
                                               ![t].image_path = c.path]
       ELSE /\ thread' = [thread EXCEPT ![t].pc = "attempt"]
            /\ UNCHANGED <<files, created, compressions>>

\* what one requests.post can end in
Responses == {"ok", "not_ok", "exception"}

\* lines 162-168 and the loop head: an attempt that did not succeed; after
\* max_retries of them the loop ends and line 169 reports the failure
after_failure(th, max_retries) ==
    [th EXCEPT !.attempt = th.attempt + 1,
               !.pc = IF th.attempt + 1 < max_retries THEN "attempt" ELSE "failed"]

\* lines 157-161: a request was posted; an OK response ends the loop and
\* leads to delete_temp_file
after_request(th, response, max_retries) ==
    IF response = "ok"
    THEN [th EXCEPT !.requests = th.requests + 1, !.oks = th.oks + 1,
                    !.uploaded = th.image_path, !.pc = "delete"]
    ELSE [after_failure(th, max_retries) EXCEPT !.requests = th.requests + 1]

\* lines 151-168: one pass of the retry loop. open() of a missing file raises
\* before any request is made.
Attempt(t) ==
    /\ thread[t].pc = "attempt"
    /\ UNCHANGED <<params, opts, nsfw_pipeline, image, files, pc, chat_id,
                   created, compressions>>
    /\ IF ~Exists(files, thread[t].image_path)
       THEN thread' = [thread EXCEPT ![t] =
                          after_failure(thread[t], opts.telegram_retry_count)]
       ELSE \E response \in Responses :
               thread' = [thread EXCEPT ![t] =
                             after_request(thread[t], response,
                                           opts.telegram_retry_count)]

\* lines 158-161: delete_temp_file(image_path) after the OK response
DeleteAfterSend(t) ==
    /\ thread[t].pc = "delete"
    /\ files' = delete_temp_file(files, thread[t].image_path)
    /\ thread' = [thread EXCEPT
                     ![t].pc = "sent",
                     ![t].deleted = {f.path : f \in files \ files'}]
    /\ UNCHANGED <<params, opts, nsfw_pipeline, image, pc, chat_id, created,
                   compressions>>

\* ------------------------------------------------------- specifications

\* one dispatch with every path, delivery setting and image size
Init ==
    InitWith(Paths, DeliverySettings,
             [size : ImageSizes, readable : BOOLEAN,
              classifier : {[raises |-> TRUE, result |-> <<>>]}],
             {FALSE}, BOOLEAN)

\* one dispatch with every path, mapping and classification
InitRouting ==
    InitWith(Paths, RoutingSettings,
             [size : {<<5121, 100>>, <<100, 2560>>}, readable : BOOLEAN,
              classifier : ClassifierOutcomes],
             BOOLEAN, {FALSE})

Next ==
    \/ on_image_saved
    \/ \E t \in Threads : CheckSettings(t)
    \/ \E t \in Threads : CheckSize(t)
    \/ \E t \in Threads : Attempt(t)
    \/ \E t \in Threads : DeleteAfterSend(t)

Spec == Init /\ [][Next]_vars

SpecRouting == InitRouting /\ [][Next]_vars

\* ------------------------------------------------------------ properties

photo == thread["photo"]

document == thread["document"]

Started(t) == thread[t].pc # "none"

\* the image file as the host saved it is on disk
OriginalOnDisk == params.filename # None => Exists(files, params.filename)

\* C1: with retry bound N >= 1 a thread makes at most N upload requests, none
\* after its first OK response, and reports "failed after N attempts" only
\* when exactly N requests were made and none was OK.
C1_RetryBound ==
    \A t \in Threads :
        /\ thread[t].requests <= opts.telegram_retry_count
        /\ thread[t].oks <= 1
        /\ thread[t].oks = 1 => thread[t].pc \in {"delete", "sent"}
        /\ thread[t].pc = "failed" =>
              /\ thread[t].requests = opts.telegram_retry_count
              /\ thread[t].oks = 0

\* C2: in every state of a dispatch the original saved image still exists,
\* whatever its name and whatever telegram_full_res is: no thread deletes it,
\* and no file delete_temp_file removes is the original.
C2_OriginalNeverDeleted ==
    /\ OriginalOnDisk
    /\ \A t \in Threads : params.filename \notin thread[t].deleted

\* C3: when the photo thread has ended with a confirmed upload, no temporary
\* file written for the dispatch by resize_image or
\* compress_image_for_telegram is left on disk.
C3_TemporariesRemoved ==
    photo.pc = "sent" => \A p \in created : ~Exists(files, p)

\* C4: with telegram_full_res the photo thread and the document thread work
\* on distinct paths, and neither removes the file the other uploads.
C4_DistinctArtifacts ==
    (Started("photo") /\ Started("document")) =>
        /\ photo.image_path # document.image_path
        /\ document.image_path \notin photo.deleted
        /\ photo.image_path \notin document.deleted

\* the token of the "-lora <token>" marker in a file name saved with its
\* extension: the token of the name without the extension
MarkerToken(path) == MatchGroup(SplitextRoot(Basename(path)))

HasMarker(path) ==
    \E i \in 1..Len(SplitextRoot(Basename(path))) :
        MatchesAt(SplitextRoot(Basename(path)), i)

\* the destination D of the table entry "lora <token lowercased>:D"
TableEntry(path, mapping_str) ==
    DictGet(ParseMapping(mapping_str), KeyPrefix \o ToLower(MarkerToken(path)))

\* C5: with NSFW detection disabled, a saved image (not a grid) whose file
\* name carries "-lora <token>" and a table with the entry
\* "lora <token lowercased>:D", D non-empty, resolve to D, and the photo
\* delivery to chat D is started.
C5_MarkerRoutes ==
    (/\ pc = "returned"
     /\ ~IsIgnored(params.filename)
     /\ ~opts.enable_nsfw_detection
     /\ HasMarker(params.filename)
     /\ Truthy(TableEntry(params.filename, opts.telegram_channel_mapping)))
    => /\ chat_id = TableEntry(params.filename, opts.telegram_channel_mapping)
       /\ Started("photo")
       /\ photo.chat_id = chat_id

\* sending is switched off, or the token is empty or the placeholder
SendingOff ==
    \/ opts.telegram_disable_sending
    \/ opts.telegram_bot_token \in {"", "YOUR_BOT_TOKEN"}

\* C6: with sending off, no step of a send_to_telegram thread (photo or
\* document) makes a request, writes a file or deletes one.
C6_DisabledTouchesNothing ==
    [][(SendingOff /\ pc = "returned") =>
          /\ files' = files
          /\ created' = created
          /\ \A t \in Threads : /\ thread'[t].requests = 0
                                /\ thread'[t].deleted = {}
                                /\ thread'[t].image_path = thread[t].image_path]_vars

C6_Witness ==
    /\ opts.telegram_bot_token = "YOUR_BOT_TOKEN"
    /\ ~opts.telegram_disable_sending
    /\ photo.pc = "skipped"
    /\ document.pc = "skipped"
    /\ created # {}

\* what on_image_saved decided: the chat it sends to, None when it sends nothing
Decision == IF Started("photo") THEN photo.chat_id ELSE None

\* what routing by file name alone decides
OrdinaryDecision ==
    LET chat == RouteByFilename(Basename(params.filename),
                                opts.telegram_channel_mapping)
    IN  IF Truthy(chat) THEN chat ELSE None

Classification == predict_nsfw(nsfw_pipeline, image.readable, image.classifier)

\* C7: with detection enabled and the classifier loaded, an NSFW label with
\* score >= nsfw_threshold and a non-empty nsfw_channel_id sends to the NSFW
\* channel whatever the file name and the table say; in every other case
\* (SFW, score below the threshold, channel unset, classifier exception) the
\* destination, or the skip, is what routing by file name gives.
C7_ClassifierRouting ==
    (/\ pc = "returned"
     /\ ~IsIgnored(params.filename)
     /\ opts.enable_nsfw_detection
     /\ nsfw_pipeline)
    => /\ IF /\ Classification.Label = "NSFW"
             /\ Classification.Score >= opts.nsfw_threshold
             /\ opts.nsfw_channel_id # <<>>
          THEN Decision = opts.nsfw_channel_id
          ELSE Decision = OrdinaryDecision
       /\ image.classifier.raises => Decision = OrdinaryDecision

C7_Witness ==
    /\ pc = "returned"
    /\ opts.enable_nsfw_detection
    /\ nsfw_pipeline
    /\ Classification.Score = opts.nsfw_threshold
    /\ OrdinaryDecision = None
    /\ Decision = NsfwChannel

\* C8 as stated: when no encoding tried fits the target, the file returned is
\* the quality-30 encoding.
C8_ReturnsQuality30 ==
    \A c \in compressions :
        c.fitBelow < MinQuality =>
            /\ Exists(files, c.target)
            /\ FileAt(files, c.target).quality = MinQuality

\* C8, amended: compress_image_for_telegram ends after at most six
\* encodings, at qualities 85, 75, ... in that order; it returns at the first
\* encoding within the target; when none is, the file it returns is the
\* quality-35 encoding, the last quality the loop reaches.
C8_CompressLoop ==
    \A c \in compressions :
        /\ c.saves \in 1..6
        /\ c.quality = StartQuality - (c.saves - 1) * QualityStep
        /\ c.fits <=> c.quality <= c.fitBelow
        /\ \A q \in Qualities : q > c.quality => q > c.fitBelow
        /\ c.fitBelow < MinQuality => c.quality = 35
        /\ Exists(files, c.target) => FileAt(files, c.target).quality = c.quality

C8_Witness ==
    \E c \in compressions :
        /\ c.fitBelow < MinQuality
        /\ Exists(files, c.target)
        /\ FileAt(files, c.target).quality = 35
        /\ FileAt(files, c.target).big

\* C9: a thread deletes a file only right after an OK response to an upload
\* of that file; a thread whose attempts all fail deletes nothing and the
\* file it tried to upload exists when it ends.
C9_FailureKeepsArtifact ==
    [][\A t \in Threads :
          /\ thread'[t].deleted \subseteq {thread'[t].uploaded}
          /\ (thread[t].pc # "failed" /\ thread'[t].pc = "failed") =>
                /\ thread'[t].deleted = {}
                /\ Exists(files', thread'[t].image_path)]_vars

\* the files on disk are the one the host saved, as it saved it
DiskUntouched ==
    /\ created = {}
    /\ \A f \in files : f.path = params.filename /\ f.quality = 0
    /\ Cardinality(files) = IF params.filename = None THEN 0 ELSE 1

\* C10: on_image_saved starts a thread, or writes a resized or compressed
\* file, only for a path without "outputs/grids/" and a non-empty resolved
\* destination; for a grid path or a routing miss there is never a request
\* and the files on disk stay as they were.
C10_SkipLeavesNothing ==
    /\ ((\E t \in Threads : Started(t)) \/ ~DiskUntouched)
          => /\ ~Contains(params.filename, GridSegment)
             /\ Truthy(chat_id)
    /\ (pc = "returned"
        /\ params.filename # None
        /\ (Contains(params.filename, GridSegment) \/ ~Truthy(chat_id)))
          => /\ \A t \in Threads : ~Started(t) /\ thread[t].requests = 0
             /\ DiskUntouched

C10_Witness ==
    /\ pc = "returned"
    /\ Contains(params.filename, GridSegment)
    /\ Truthy(OrdinaryDecision)
    /\ NeedsResize(image.size[1], image.size[2], opts)
    /\ \A t \in Threads : ~Started(t)
    /\ DiskUntouched

====
